---- MODULE Spec2Model ----
(***************************************************************************)
(* BusTub buffer pool manager (src/buffer/buffer_pool_manager.cpp) on top  *)
(* of the clock replacer (src/buffer/clock_replacer.cpp).                  *)
(*                                                                         *)
(* Every *Impl method is a pure operator from a manager state record to a  *)
(* result [s |-> state after the call, ret |-> returned value]; one action *)
(* per public method applies the operator to the current state.            *)
(***************************************************************************)
EXTENDS Integers, Sequences, FiniteSets, TLC

\* ---------------------------------------------------------------- bounds
PoolSize == 2      \* pool_size passed to the constructor
MaxPageId == 2     \* page ids are 0..MaxPageId
MaxPin == 2        \* callers hold at most MaxPin pins on one page
MaxByte == 1       \* a frame's bytes are abstracted to one value 0..MaxByte
NumPages == 3      \* num_pages of a replacer driven on its own
NumThreads == 2    \* threads calling the manager at the same time
MaxCalls == 3      \* FetchPage calls each of those threads makes

Frames == 0 .. (PoolSize - 1)
PageIds == 0 .. MaxPageId
Data == 0 .. MaxByte

INVALID_PAGE_ID == -1
nullptr == -1
\* the value of a frame_id_t local that was declared and never written
Uninit == "uninitialized"

VARIABLES pages, page_table, free_list, replacer, disk, next_page_id,
          op, crashed, evicted_bytes, waited, threads

vars == <<pages, page_table, free_list, replacer, disk, next_page_id,
          op, crashed, evicted_bytes, waited, threads>>

\* ------------------------------------------------------- clock replacer
ClockReplacer(num_pages) ==
  [clk_ptr |-> 0,
   buffer_size |-> num_pages,
   reflag |-> [i \in 0 .. (num_pages - 1) |-> FALSE],
   inflag |-> [i \in 0 .. (num_pages - 1) |-> FALSE]]

\* The loop of Victim without the second chance: it leaves the ref flag of
\* the frames it passes set.
RECURSIVE VictimScan_KeepsReferenced(_, _, _)
VictimScan_KeepsReferenced(r, i, candi) ==
  IF i >= r.buffer_size
    THEN [ret |-> FALSE, candi |-> candi, frame_id |-> Uninit, r |-> r]
    ELSE LET idx == (r.clk_ptr + i) % r.buffer_size IN
         IF r.inflag[idx] /\ ~r.reflag[idx]
           THEN [ret |-> TRUE, candi |-> candi, frame_id |-> idx,
                 r |-> [r EXCEPT !.clk_ptr = (idx + 1) % r.buffer_size,
                                 !.inflag[idx] = FALSE]]
           ELSE IF r.inflag[idx] /\ r.reflag[idx]
             THEN VictimScan_KeepsReferenced(r, i + 1,
                                             IF candi = -1 THEN idx ELSE candi)
             ELSE VictimScan_KeepsReferenced(r, i + 1, candi)

\* The for loop of Victim, at iteration i with fallback candidate candi.
RECURSIVE VictimScan(_, _, _)
VictimScan(r, i, candi) ==
  IF i >= r.buffer_size
    THEN [ret |-> FALSE, candi |-> candi, frame_id |-> Uninit, r |-> r]
    ELSE LET idx == (r.clk_ptr + i) % r.buffer_size IN
         IF r.inflag[idx] /\ ~r.reflag[idx]
           THEN [ret |-> TRUE, candi |-> candi, frame_id |-> idx,
                 r |-> [r EXCEPT !.clk_ptr = (idx + 1) % r.buffer_size,
                                 !.inflag[idx] = FALSE]]
           ELSE IF r.inflag[idx] /\ r.reflag[idx]
             THEN VictimScan([r EXCEPT !.reflag[idx] = FALSE], i + 1,
                             IF candi = -1 THEN idx ELSE candi)
             ELSE VictimScan(r, i + 1, candi)

\* Victim whose fallback leaves the clock hand where the call found it.
Victim_FallbackKeepsHand(r) ==
  LET scan == VictimScan(r, 0, -1) IN
  IF scan.ret
    THEN [ret |-> TRUE, frame_id |-> scan.frame_id, r |-> scan.r]
    ELSE IF scan.candi = -1
      THEN [ret |-> FALSE, frame_id |-> Uninit, r |-> scan.r]
      ELSE [ret |-> TRUE, frame_id |-> scan.candi,
            r |-> [scan.r EXCEPT !.inflag[scan.candi] = FALSE]]

\* Victim that reports success, with frame 0, when no frame is in the
\* replacer.
Victim_StaleSuccess(r) ==
  LET scan == VictimScan(r, 0, -1) IN
  IF scan.ret
    THEN [ret |-> TRUE, frame_id |-> scan.frame_id, r |-> scan.r]
    ELSE IF scan.candi = -1
      THEN [ret |-> TRUE, frame_id |-> 0, r |-> scan.r]
      ELSE [ret |-> TRUE, frame_id |-> scan.candi,
            r |-> [scan.r EXCEPT !.clk_ptr = (scan.candi + 1) % scan.r.buffer_size,
                                 !.inflag[scan.candi] = FALSE]]

\* Victim(&frame_id): [ret, frame_id written through the pointer, r after].
\* On failure the callee only nulls its own copy of the pointer, so the
\* caller's variable keeps whatever it held.
Victim(r) ==
  LET scan == VictimScan(r, 0, -1) IN
  IF scan.ret
    THEN [ret |-> TRUE, frame_id |-> scan.frame_id, r |-> scan.r]
    ELSE IF scan.candi = -1
      THEN [ret |-> FALSE, frame_id |-> Uninit, r |-> scan.r]
      ELSE [ret |-> TRUE, frame_id |-> scan.candi,
            r |-> [scan.r EXCEPT !.clk_ptr = (scan.candi + 1) % scan.r.buffer_size,
                                 !.inflag[scan.candi] = FALSE]]

\* Pin that leaves the frame in the replacer.
Pin_KeepsFrame(r, frame_id) == r

Pin(r, frame_id) ==
  IF frame_id >= r.buffer_size \/ frame_id < 0
    THEN r
    ELSE [r EXCEPT !.inflag[frame_id] = FALSE]

\* Unpin that also moves the clock hand, to the frame after the one it adds.
Unpin_MovesHand(r, frame_id) ==
  IF frame_id >= r.buffer_size \/ frame_id < 0
    THEN r
    ELSE [r EXCEPT !.inflag[frame_id] = TRUE, !.reflag[frame_id] = TRUE,
                   !.clk_ptr = (frame_id + 1) % r.buffer_size]

Unpin(r, frame_id) ==
  IF frame_id >= r.buffer_size \/ frame_id < 0
    THEN r
    ELSE [r EXCEPT !.inflag[frame_id] = TRUE, !.reflag[frame_id] = TRUE]

Size(r) == Cardinality({i \in DOMAIN r.inflag : r.inflag[i]})

\* ------------------------------------------------- buffer pool manager
\* std::unordered_map<page_id_t, frame_id_t> as a function on its key set.
Find(pt, k) == k \in DOMAIN pt
Erase(pt, k) == [x \in (DOMAIN pt) \ {k} |-> pt[x]]
Insert(pt, k, v) == [x \in (DOMAIN pt) \cup {k} |-> IF x = k THEN v ELSE pt[x]]

\* Page(): what a frame holds before it is first bound.
NewPageObject == [page_id |-> INVALID_PAGE_ID, pin_count |-> 0,
                  is_dirty |-> FALSE, data |-> 0]

\* State after BufferPoolManager(pool_size, disk_manager, log_manager).
\* io, victim, uninit_read and crash are per-call scratch: the storage calls
\* the call made, the frame Victim handed it, whether it indexed pages_
\* with an unwritten local, and whether that access ended the process.
BufferPoolManager(pool_size) ==
  [pages |-> [f \in 0 .. (pool_size - 1) |-> NewPageObject],
   page_table |-> [x \in {} |-> 0],
   free_list |-> [i \in 1 .. pool_size |-> i - 1],
   replacer |-> ClockReplacer(pool_size),
   disk |-> [p \in PageIds |-> 0],
   next_page_id |-> 0,
   io |-> <<>>,
   victim |-> nullptr,
   uninit_read |-> FALSE,
   crash |-> FALSE]

\* DiskManager collaborator.
WritePage(s, page_id, bytes) ==
  [s EXCEPT !.disk[page_id] = bytes,
            !.io = Append(@, <<"WritePage", page_id, bytes>>)]

ReadPage(s, page_id) == s.disk[page_id]

AllocatePage(s) == s.next_page_id

\* FlushPageImpl that writes the page and leaves is_dirty_ set.
FlushPageImpl_KeepsDirty(s, page_id) ==
  IF ~Find(s.page_table, page_id)
    THEN [s |-> s, ret |-> FALSE]
    ELSE LET frame == s.page_table[page_id] IN
         IF ~s.pages[frame].is_dirty
           THEN [s |-> s, ret |-> TRUE]
           ELSE [s |-> WritePage(s, page_id, s.pages[frame].data), ret |-> TRUE]

FlushPageImpl(s, page_id) ==
  IF ~Find(s.page_table, page_id)
    THEN [s |-> s, ret |-> FALSE]
    ELSE LET frame == s.page_table[page_id] IN
         IF ~s.pages[frame].is_dirty
           THEN [s |-> s, ret |-> TRUE]
           ELSE [s |-> [WritePage(s, page_id, s.pages[frame].data)
                          EXCEPT !.pages[frame].is_dirty = FALSE],
                 ret |-> TRUE]

\* pages_[r_target].GetPageId() with r_target never written: the read
\* either yields a value nobody uses or faults (ub = "crash").
UninitRead(s, ub) ==
  [s EXCEPT !.uninit_read = TRUE, !.crash = (ub = "crash")]

\* FetchPageImpl that binds a frame to a missing page without counting the
\* caller's pin.
FetchPageImpl_ForgetsPinCount(s, page_id, ub) ==
  IF Find(s.page_table, page_id)
    THEN LET p_requested == s.page_table[page_id] IN
         [s |-> [s EXCEPT !.replacer = Pin(@, p_requested),
                          !.pages[p_requested].pin_count = @ + 1],
          ret |-> p_requested]
    ELSE IF s.free_list # <<>>
      THEN LET r_target == Head(s.free_list) IN
           [s |-> [s EXCEPT !.free_list = Tail(@),
                            !.replacer = Pin(@, r_target),
                            !.pages[r_target] =
                               [page_id |-> page_id,
                                pin_count |-> @.pin_count,
                                is_dirty |-> FALSE,
                                data |-> ReadPage(s, page_id)],
                            !.page_table = Insert(@, page_id, r_target),
                            !.io = Append(@, <<"ReadPage", page_id>>)],
            ret |-> r_target]
      ELSE LET v == Victim(s.replacer)
               s1 == [s EXCEPT !.replacer = v.r,
                               !.victim = IF v.ret THEN v.frame_id ELSE nullptr]
           IN
           IF ~v.ret
             THEN [s |-> UninitRead(s1, ub), ret |-> nullptr]
             ELSE LET r_target == v.frame_id
                      evict_page == s1.pages[r_target].page_id
                      flu == IF s1.pages[r_target].is_dirty
                               THEN FlushPageImpl(s1, evict_page)
                               ELSE [s |-> s1, ret |-> TRUE]
                      s2 == flu.s
                  IN
                  IF ~flu.ret
                    THEN [s |-> s2, ret |-> nullptr]
                    ELSE [s |-> [s2 EXCEPT
                                   !.replacer = Pin(@, r_target),
                                   !.pages[r_target] =
                                      [page_id |-> page_id,
                                       pin_count |-> @.pin_count,
                                       is_dirty |-> FALSE,
                                       data |-> ReadPage(s2, page_id)],
                                   !.page_table =
                                      Insert(Erase(@, evict_page), page_id, r_target),
                                   !.io = Append(@, <<"ReadPage", page_id>>)],
                          ret |-> r_target]

\* FetchPageImpl that leaves the victim's page-table entry in place.
FetchPageImpl_NoErase(s, page_id, ub) ==
  IF Find(s.page_table, page_id)
    THEN LET p_requested == s.page_table[page_id] IN
         [s |-> [s EXCEPT !.replacer = Pin(@, p_requested),
                          !.pages[p_requested].pin_count = @ + 1],
          ret |-> p_requested]
    ELSE IF s.free_list # <<>>
      THEN LET r_target == Head(s.free_list) IN
           [s |-> [s EXCEPT !.free_list = Tail(@),
                            !.replacer = Pin(@, r_target),
                            !.pages[r_target] =
                               [page_id |-> page_id,
                                pin_count |-> @.pin_count + 1,
                                is_dirty |-> FALSE,
                                data |-> ReadPage(s, page_id)],
                            !.page_table = Insert(@, page_id, r_target),
                            !.io = Append(@, <<"ReadPage", page_id>>)],
            ret |-> r_target]
      ELSE LET v == Victim(s.replacer)
               s1 == [s EXCEPT !.replacer = v.r,
                               !.victim = IF v.ret THEN v.frame_id ELSE nullptr]
           IN
           IF ~v.ret
             THEN [s |-> UninitRead(s1, ub), ret |-> nullptr]
             ELSE LET r_target == v.frame_id
                      evict_page == s1.pages[r_target].page_id
                      flu == IF s1.pages[r_target].is_dirty
                               THEN FlushPageImpl(s1, evict_page)
                               ELSE [s |-> s1, ret |-> TRUE]
                      s2 == flu.s
                  IN
                  IF ~flu.ret
                    THEN [s |-> s2, ret |-> nullptr]
                    ELSE [s |-> [s2 EXCEPT
                                   !.replacer = Pin(@, r_target),
                                   !.pages[r_target] =
                                      [page_id |-> page_id,
                                       pin_count |-> @.pin_count + 1,
                                       is_dirty |-> FALSE,
                                       data |-> ReadPage(s2, page_id)],
                                   !.page_table = Insert(@, page_id, r_target),
                                   !.io = Append(@, <<"ReadPage", page_id>>)],
                          ret |-> r_target]

FetchPageImpl(s, page_id, ub) ==
  IF Find(s.page_table, page_id)
    THEN LET p_requested == s.page_table[page_id] IN
         [s |-> [s EXCEPT !.replacer = Pin(@, p_requested),
                          !.pages[p_requested].pin_count = @ + 1],
          ret |-> p_requested]
    ELSE IF s.free_list # <<>>
      THEN LET r_target == Head(s.free_list) IN
           [s |-> [s EXCEPT !.free_list = Tail(@),
                            !.replacer = Pin(@, r_target),
                            !.pages[r_target] =
                               [page_id |-> page_id,
                                pin_count |-> @.pin_count + 1,
                                is_dirty |-> FALSE,
                                data |-> ReadPage(s, page_id)],
                            !.page_table = Insert(@, page_id, r_target),
                            !.io = Append(@, <<"ReadPage", page_id>>)],
            ret |-> r_target]
      ELSE LET v == Victim(s.replacer)
               s1 == [s EXCEPT !.replacer = v.r,
                               !.victim = IF v.ret THEN v.frame_id ELSE nullptr]
           IN
           IF ~v.ret
             THEN [s |-> UninitRead(s1, ub), ret |-> nullptr]
             ELSE LET r_target == v.frame_id
                      evict_page == s1.pages[r_target].page_id
                      flu == IF s1.pages[r_target].is_dirty
                               THEN FlushPageImpl(s1, evict_page)
                               ELSE [s |-> s1, ret |-> TRUE]
                      s2 == flu.s
                  IN
                  IF ~flu.ret
                    THEN [s |-> s2, ret |-> nullptr]
                    ELSE [s |-> [s2 EXCEPT
                                   !.replacer = Pin(@, r_target),
                                   !.pages[r_target] =
                                      [page_id |-> page_id,
                                       pin_count |-> @.pin_count + 1,
                                       is_dirty |-> FALSE,
                                       data |-> ReadPage(s2, page_id)],
                                   !.page_table =
                                      Insert(Erase(@, evict_page), page_id, r_target),
                                   !.io = Append(@, <<"ReadPage", page_id>>)],
                          ret |-> r_target]

\* UnpinPageImpl that returns false for a page that is not in the page table.
UnpinPageImpl_FailsNotResident(s, page_id, is_dirty) ==
  IF ~Find(s.page_table, page_id)
    THEN [s |-> s, ret |-> FALSE]
    ELSE LET frame == s.page_table[page_id] IN
         IF s.pages[frame].pin_count <= 0
           THEN [s |-> s, ret |-> FALSE]
           ELSE LET s1 == [s EXCEPT !.pages[frame].pin_count = @ - 1,
                                    !.pages[frame].is_dirty = (@ \/ is_dirty)]
                IN
                [s |-> IF s1.pages[frame].pin_count = 0
                         THEN [s1 EXCEPT !.replacer = Unpin(@, frame)]
                         ELSE s1,
                 ret |-> TRUE]

\* UnpinPageImpl with replacer_->Unpin(frame) called on every unpin, not
\* only when the pin count reaches 0.
UnpinPageImpl_UnpinAlways(s, page_id, is_dirty) ==
  IF ~Find(s.page_table, page_id)
    THEN [s |-> s, ret |-> TRUE]
    ELSE LET frame == s.page_table[page_id] IN
         IF s.pages[frame].pin_count <= 0
           THEN [s |-> s, ret |-> FALSE]
           ELSE [s |-> [s EXCEPT !.pages[frame].pin_count = @ - 1,
                                 !.pages[frame].is_dirty = (@ \/ is_dirty),
                                 !.replacer = Unpin(@, frame)],
                 ret |-> TRUE]

\* UnpinPageImpl with is_dirty_ = is_dirty in place of is_dirty_ |= is_dirty.
UnpinPageImpl_AssignsDirty(s, page_id, is_dirty) ==
  IF ~Find(s.page_table, page_id)
    THEN [s |-> s, ret |-> TRUE]
    ELSE LET frame == s.page_table[page_id] IN
         IF s.pages[frame].pin_count <= 0
           THEN [s |-> s, ret |-> FALSE]
           ELSE LET s1 == [s EXCEPT !.pages[frame].pin_count = @ - 1,
                                    !.pages[frame].is_dirty = is_dirty]
                IN
                [s |-> IF s1.pages[frame].pin_count = 0
                         THEN [s1 EXCEPT !.replacer = Unpin(@, frame)]
                         ELSE s1,
                 ret |-> TRUE]

\* UnpinPageImpl without the pin count <= 0 test.
UnpinPageImpl_NoZeroTest(s, page_id, is_dirty) ==
  IF ~Find(s.page_table, page_id)
    THEN [s |-> s, ret |-> TRUE]
    ELSE LET frame == s.page_table[page_id]
             s1 == [s EXCEPT !.pages[frame].pin_count = @ - 1,
                             !.pages[frame].is_dirty = (@ \/ is_dirty)]
         IN
         [s |-> IF s1.pages[frame].pin_count = 0
                  THEN [s1 EXCEPT !.replacer = Unpin(@, frame)]
                  ELSE s1,
          ret |-> TRUE]

UnpinPageImpl(s, page_id, is_dirty) ==
  IF ~Find(s.page_table, page_id)
    THEN [s |-> s, ret |-> TRUE]
    ELSE LET frame == s.page_table[page_id] IN
         IF s.pages[frame].pin_count <= 0
           THEN [s |-> s, ret |-> FALSE]
           ELSE LET s1 == [s EXCEPT !.pages[frame].pin_count = @ - 1,
                                    !.pages[frame].is_dirty = (@ \/ is_dirty)]
                IN
                [s |-> IF s1.pages[frame].pin_count = 0
                         THEN [s1 EXCEPT !.replacer = Unpin(@, frame)]
                         ELSE s1,
                 ret |-> TRUE]

\* NewPageImpl that calls AllocatePage first, before it looks for a frame.
NewPageImpl_AllocatesFirst(s, ub) ==
  LET page_id == AllocatePage(s)
      s0 == [s EXCEPT !.next_page_id = @ + 1,
                      !.io = Append(@, <<"AllocatePage", page_id>>)]
  IN
  IF s0.free_list # <<>>
    THEN LET free_id == Head(s0.free_list) IN
         [s |-> [s0 EXCEPT !.free_list = Tail(@),
                           !.pages[free_id] =
                              [page_id |-> page_id, pin_count |-> 1,
                               is_dirty |-> FALSE, data |-> 0],
                           !.replacer = Pin(@, free_id),
                           !.page_table = Insert(@, page_id, free_id)],
          ret |-> free_id, page_id |-> page_id]
    ELSE LET v == Victim(s0.replacer)
             s1 == [s0 EXCEPT !.replacer = v.r,
                              !.victim = IF v.ret THEN v.frame_id ELSE nullptr]
         IN
         IF ~v.ret
           THEN [s |-> UninitRead(s1, ub), ret |-> nullptr,
                 page_id |-> INVALID_PAGE_ID]
           ELSE LET candi_id == v.frame_id
                    victim_id == s1.pages[candi_id].page_id
                    flu == IF s1.pages[candi_id].is_dirty
                             THEN FlushPageImpl(s1, victim_id)
                             ELSE [s |-> s1, ret |-> TRUE]
                    s2 == flu.s
                IN
                IF ~flu.ret
                  THEN [s |-> s2, ret |-> nullptr, page_id |-> INVALID_PAGE_ID]
                  ELSE [s |-> [s2 EXCEPT
                                 !.pages[candi_id] =
                                    [page_id |-> page_id, pin_count |-> 1,
                                     is_dirty |-> FALSE, data |-> 0],
                                 !.replacer = Pin(@, candi_id),
                                 !.page_table =
                                    Insert(Erase(@, victim_id), page_id, candi_id)],
                        ret |-> candi_id, page_id |-> page_id]

\* NewPageImpl that reuses the victim frame without flushing a dirty page.
NewPageImpl_NoWriteBack(s, ub) ==
  IF s.free_list # <<>>
    THEN LET free_id == Head(s.free_list)
             page_id == AllocatePage(s)
         IN
         [s |-> [s EXCEPT !.free_list = Tail(@),
                          !.next_page_id = @ + 1,
                          !.pages[free_id] =
                             [page_id |-> page_id, pin_count |-> 1,
                              is_dirty |-> FALSE, data |-> 0],
                          !.replacer = Pin(@, free_id),
                          !.page_table = Insert(@, page_id, free_id),
                          !.io = Append(@, <<"AllocatePage", page_id>>)],
          ret |-> free_id, page_id |-> page_id]
    ELSE LET v == Victim(s.replacer)
             s1 == [s EXCEPT !.replacer = v.r,
                             !.victim = IF v.ret THEN v.frame_id ELSE nullptr]
         IN
         IF ~v.ret
           THEN [s |-> UninitRead(s1, ub), ret |-> nullptr,
                 page_id |-> INVALID_PAGE_ID]
           ELSE LET candi_id == v.frame_id
                    victim_id == s1.pages[candi_id].page_id
                    page_id == AllocatePage(s1)
                IN
                [s |-> [s1 EXCEPT
                          !.next_page_id = @ + 1,
                          !.pages[candi_id] =
                             [page_id |-> page_id, pin_count |-> 1,
                              is_dirty |-> FALSE, data |-> 0],
                          !.replacer = Pin(@, candi_id),
                          !.page_table =
                             Insert(Erase(@, victim_id), page_id, candi_id),
                          !.io = Append(@, <<"AllocatePage", page_id>>)],
                 ret |-> candi_id, page_id |-> page_id]

NewPageImpl(s, ub) ==
  IF s.free_list # <<>>
    THEN LET free_id == Head(s.free_list)
             page_id == AllocatePage(s)
         IN
         [s |-> [s EXCEPT !.free_list = Tail(@),
                          !.next_page_id = @ + 1,
                          !.pages[free_id] =
                             [page_id |-> page_id, pin_count |-> 1,
                              is_dirty |-> FALSE, data |-> 0],
                          !.replacer = Pin(@, free_id),
                          !.page_table = Insert(@, page_id, free_id),
                          !.io = Append(@, <<"AllocatePage", page_id>>)],
          ret |-> free_id, page_id |-> page_id]
    ELSE LET v == Victim(s.replacer)
             s1 == [s EXCEPT !.replacer = v.r,
                             !.victim = IF v.ret THEN v.frame_id ELSE nullptr]
         IN
         IF ~v.ret
           THEN [s |-> UninitRead(s1, ub), ret |-> nullptr,
                 page_id |-> INVALID_PAGE_ID]
           ELSE LET candi_id == v.frame_id
                    victim_id == s1.pages[candi_id].page_id
                    flu == IF s1.pages[candi_id].is_dirty
                             THEN FlushPageImpl(s1, victim_id)
                             ELSE [s |-> s1, ret |-> TRUE]
                    s2 == flu.s
                    page_id == AllocatePage(s2)
                IN
                IF ~flu.ret
                  THEN [s |-> s2, ret |-> nullptr, page_id |-> INVALID_PAGE_ID]
                  ELSE [s |-> [s2 EXCEPT
                                 !.next_page_id = @ + 1,
                                 !.pages[candi_id] =
                                    [page_id |-> page_id, pin_count |-> 1,
                                     is_dirty |-> FALSE, data |-> 0],
                                 !.replacer = Pin(@, candi_id),
                                 !.page_table =
                                    Insert(Erase(@, victim_id), page_id, candi_id),
                                 !.io = Append(@, <<"AllocatePage", page_id>>)],
                        ret |-> candi_id, page_id |-> page_id]

DeletePageImpl(s, page_id) == [s |-> s, ret |-> FALSE]

\* The loop of FlushAllPagesImpl from frame i on.
RECURSIVE FlushAllFrom(_, _)
FlushAllFrom(s, i) ==
  IF i >= PoolSize
    THEN s
    ELSE FlushAllFrom(IF s.pages[i].is_dirty
                        THEN FlushPageImpl(s, s.pages[i].page_id).s
                        ELSE s,
                      i + 1)

\* FlushAllPagesImpl whose loop starts at frame 1.
FlushAllPagesImpl_SkipsFirst(s) == [s |-> FlushAllFrom(s, 1), ret |-> TRUE]

FlushAllPagesImpl(s) == [s |-> FlushAllFrom(s, 0), ret |-> TRUE]

\* ---------------------------------------------------------------- state
\* The manager's members as one record, with the per-call scratch cleared.
St ==
  [pages |-> pages, page_table |-> page_table, free_list |-> free_list,
   replacer |-> replacer, disk |-> disk, next_page_id |-> next_page_id,
   io |-> <<>>, victim |-> nullptr, uninit_read |-> FALSE, crash |-> FALSE]

\* The frame a call bound to a new page, or nullptr: a FetchPage that
\* missed the page table, or a NewPage, that returned a frame.
Rebound(name, page_id, ret) ==
  IF ret # nullptr /\ (name = "NewPage" \/ (name = "FetchPage" /\ ~Find(page_table, page_id)))
    THEN ret
    ELSE nullptr

\* A call returns: the members take the values the operator computed and op
\* records the call (name, arguments, result, storage calls).
\* evicted_bytes[p]: the bytes page p had in its frame when that frame was
\* last rebound to another page, -1 when p was not evicted since it was
\* last bound.
Return(r, name, page_id, is_dirty, ok, frame) ==
  LET rb == Rebound(name, page_id, frame)
      old == IF rb = nullptr THEN INVALID_PAGE_ID ELSE pages[rb].page_id
  IN
  /\ pages' = r.s.pages
  /\ page_table' = r.s.page_table
  /\ free_list' = r.s.free_list
  /\ replacer' = r.s.replacer
  /\ disk' = r.s.disk
  /\ next_page_id' = r.s.next_page_id
  /\ crashed' = r.s.crash
  /\ op' = [name |-> name, page_id |-> page_id, is_dirty |-> is_dirty,
            ok |-> ok, frame |-> frame, io |-> r.s.io,
            victim |-> r.s.victim, uninit_read |-> r.s.uninit_read]
  /\ evicted_bytes' =
       [p \in PageIds |->
          IF rb # nullptr /\ p = r.s.pages[rb].page_id THEN -1
          ELSE IF rb # nullptr /\ p = old
            THEN pages[rb].data
            ELSE evicted_bytes[p]]
  /\ UNCHANGED <<waited, threads>>

\* op between two calls: the caller has taken the last result.
NoCall ==
  [name |-> "none", page_id |-> INVALID_PAGE_ID, is_dirty |-> FALSE,
   ok |-> TRUE, frame |-> nullptr, io |-> <<>>, victim |-> nullptr,
   uninit_read |-> FALSE]

\* No call is in progress or waiting to be taken, and the process is alive.
Idle == op = NoCall /\ ~crashed

Init ==
  LET s == BufferPoolManager(PoolSize) IN
  /\ pages = s.pages
  /\ page_table = s.page_table
  /\ free_list = s.free_list
  /\ replacer = s.replacer
  /\ disk = s.disk
  /\ next_page_id = s.next_page_id
  /\ crashed = FALSE
  /\ op = NoCall
  /\ evicted_bytes = [p \in PageIds |-> -1]
  /\ waited = [f \in Frames |-> 0]
  /\ threads = <<>>

UB == {"benign", "crash"}

FetchPage(page_id) ==
  /\ Idle
  /\ Find(page_table, page_id) => pages[page_table[page_id]].pin_count < MaxPin
  /\ \E ub \in UB :
       LET r == FetchPageImpl(St, page_id, ub) IN
       Return(r, "FetchPage", page_id, FALSE, r.ret # nullptr, r.ret)

UnpinPage(page_id, is_dirty) ==
  /\ Idle
  /\ LET r == UnpinPageImpl(St, page_id, is_dirty) IN
     Return(r, "UnpinPage", page_id, is_dirty, r.ret, nullptr)

FlushPage(page_id) ==
  /\ Idle
  /\ LET r == FlushPageImpl(St, page_id) IN
     Return(r, "FlushPage", page_id, FALSE, r.ret, nullptr)

NewPage ==
  /\ Idle
  /\ next_page_id <= MaxPageId
  /\ \E ub \in UB :
       LET r == NewPageImpl(St, ub) IN
       Return(r, "NewPage", r.page_id, FALSE, r.ret # nullptr, r.ret)

DeletePage(page_id) ==
  /\ Idle
  /\ LET r == DeletePageImpl(St, page_id) IN
     Return(r, "DeletePage", page_id, FALSE, r.ret, nullptr)

FlushAllPages ==
  /\ Idle
  /\ LET r == FlushAllPagesImpl(St) IN
     Return(r, "FlushAllPages", INVALID_PAGE_ID, FALSE, TRUE, nullptr)

\* A caller holding a pin on page_id writes bytes d through Page::GetData()
\* and releases its pin reporting the change: UnpinPage(page_id, true).
WriteAndUnpin(page_id, d) ==
  /\ Idle
  /\ Find(page_table, page_id)
  /\ pages[page_table[page_id]].pin_count > 0
  /\ pages[page_table[page_id]].data # d
  /\ LET written == [St EXCEPT !.pages[page_table[page_id]].data = d]
         r == UnpinPageImpl(written, page_id, TRUE)
     IN
     Return(r, "UnpinPage", page_id, TRUE, r.ret, nullptr)

\* The caller takes the result of the call that just returned.
Ack ==
  /\ op # NoCall
  /\ ~crashed
  /\ op' = NoCall
  /\ UNCHANGED <<pages, page_table, free_list, replacer, disk, next_page_id,
                 crashed, evicted_bytes, waited, threads>>

\* Page ids AllocatePage has handed out.
Minted == 0 .. (next_page_id - 1)

\* Callers fetch only pages that NewPage created.
Next ==
  \/ \E page_id \in Minted : FetchPage(page_id)
  \/ \E page_id \in PageIds, is_dirty \in BOOLEAN : UnpinPage(page_id, is_dirty)
  \/ \E page_id \in PageIds : FlushPage(page_id)
  \/ NewPage
  \/ \E page_id \in PageIds : DeletePage(page_id)
  \/ FlushAllPages
  \/ Ack

Spec == Init /\ [][Next]_vars

\* Callers may fetch any page id, minted or not.
NextAny ==
  \/ \E page_id \in PageIds : FetchPage(page_id)
  \/ \E page_id \in PageIds, is_dirty \in BOOLEAN : UnpinPage(page_id, is_dirty)
  \/ \E page_id \in PageIds : FlushPage(page_id)
  \/ NewPage
  \/ \E page_id \in PageIds : DeletePage(page_id)
  \/ FlushAllPages
  \/ Ack

SpecAny == Init /\ [][NextAny]_vars

\* Callers also write the bytes of the pages they hold, and report every
\* change when they unpin.
NextData ==
  \/ Next
  \/ \E page_id \in PageIds, d \in Data : WriteAndUnpin(page_id, d)

SpecData == Init /\ [][NextData]_vars

\* ------------------------------------------- the replacer on its own
\* A ClockReplacer(NumPages) called directly, as its unit tests call it:
\* any sequence of Victim, Pin, Unpin and Size calls. op holds the last call
\* and its result. waited[f] counts the successful Victim calls that
\* returned another frame since f was last passed to Unpin, while f has
\* stayed in the replacer; it saturates at MaxWait.
ReplacerFrames == 0 .. (NumPages - 1)

MaxWait == 2 * NumPages + 1

InitReplacer ==
  LET s == BufferPoolManager(PoolSize) IN
  /\ pages = s.pages
  /\ page_table = s.page_table
  /\ free_list = s.free_list
  /\ replacer = ClockReplacer(NumPages)
  /\ disk = s.disk
  /\ next_page_id = s.next_page_id
  /\ crashed = FALSE
  /\ op = NoCall
  /\ evicted_bytes = [p \in PageIds |-> -1]
  /\ waited = [f \in ReplacerFrames |-> 0]
  /\ threads = <<>>

Manager == <<pages, page_table, free_list, disk, next_page_id, crashed,
             evicted_bytes, threads>>

CallVictim ==
  LET v == Victim(replacer) IN
  /\ replacer' = v.r
  /\ op' = [NoCall EXCEPT !.name = "Victim", !.ok = v.ret,
                          !.frame = IF v.ret THEN v.frame_id ELSE nullptr]
  /\ waited' = [f \in ReplacerFrames |->
                  IF ~v.ret THEN waited[f]
                  ELSE IF f = v.frame_id \/ ~replacer.inflag[f] THEN 0
                  ELSE IF waited[f] < MaxWait THEN waited[f] + 1
                  ELSE MaxWait]
  /\ UNCHANGED Manager

CallPin(frame_id) ==
  /\ replacer' = Pin(replacer, frame_id)
  /\ op' = [NoCall EXCEPT !.name = "Pin", !.frame = frame_id]
  /\ waited' = [f \in ReplacerFrames |-> IF f = frame_id THEN 0 ELSE waited[f]]
  /\ UNCHANGED Manager

CallUnpin(frame_id) ==
  /\ replacer' = Unpin(replacer, frame_id)
  /\ op' = [NoCall EXCEPT !.name = "Unpin", !.frame = frame_id]
  /\ waited' = [f \in ReplacerFrames |-> IF f = frame_id THEN 0 ELSE waited[f]]
  /\ UNCHANGED Manager

CallSize ==
  /\ op' = [NoCall EXCEPT !.name = "Size", !.frame = Size(replacer)]
  /\ UNCHANGED <<replacer, waited>>
  /\ UNCHANGED Manager

\* frame_id arguments: every frame, and one value off each end.
FrameArgs == -1 .. NumPages

NextReplacer ==
  \/ CallVictim
  \/ \E frame_id \in FrameArgs : CallPin(frame_id)
  \/ \E frame_id \in FrameArgs : CallUnpin(frame_id)
  \/ CallSize

SpecReplacer == InitReplacer /\ [][NextReplacer]_vars

\* ------------------------------------------------- concurrent callers
\* NumThreads threads call the manager with no synchronisation between
\* them: the source takes no lock in any method. A FetchPage call runs as
\* the statement blocks of FetchPageImpl, and steps of different threads
\* interleave. threads[t] is thread t's position and locals: pc, the
\* page_id argument, the frame local (p_requested / r_target) and the
\* pin_count value read by `pin_count_ += 1`, and the number of FetchPage
\* calls it has made. The pages 0..MaxPageId exist in storage: they were
\* allocated before this manager was constructed.
Threads == 1 .. NumThreads

AtRest(calls) ==
  [pc |-> "idle", page_id |-> INVALID_PAGE_ID, frame |-> nullptr, pin |-> 0,
   calls |-> calls]

Pinned(page_id, frame, calls) ==
  [pc |-> "pinned", page_id |-> page_id, frame |-> frame, pin |-> 0,
   calls |-> calls]

InitThreads ==
  LET s == BufferPoolManager(PoolSize) IN
  /\ pages = s.pages
  /\ page_table = s.page_table
  /\ free_list = s.free_list
  /\ replacer = s.replacer
  /\ disk = s.disk
  /\ next_page_id = MaxPageId + 1
  /\ crashed = FALSE
  /\ op = NoCall
  /\ evicted_bytes = [p \in PageIds |-> -1]
  /\ waited = [f \in Frames |-> 0]
  /\ threads = [t \in Threads |-> AtRest(0)]

\* The members take the values of state record s.
Becomes(s) ==
  /\ pages' = s.pages
  /\ page_table' = s.page_table
  /\ free_list' = s.free_list
  /\ replacer' = s.replacer
  /\ disk' = s.disk
  /\ next_page_id' = s.next_page_id
  /\ crashed' = s.crash
  /\ UNCHANGED <<op, evicted_bytes, waited>>

\* FetchPageImpl lines 65-76 with r_target read at line 64: pop_front (on a
\* list another thread emptied meanwhile, undefined: nothing or a fault),
\* then bind r_target to page_id.
FetchFromFreeList(s, page_id, r_target, ub) ==
  LET s1 == IF s.free_list # <<>>
              THEN [s EXCEPT !.free_list = Tail(@)]
              ELSE [s EXCEPT !.crash = (ub = "crash")]
  IN
  [s1 EXCEPT !.replacer = Pin(@, r_target),
             !.pages[r_target] =
                [page_id |-> page_id,
                 pin_count |-> @.pin_count + 1,
                 is_dirty |-> FALSE,
                 data |-> ReadPage(s1, page_id)],
             !.page_table = Insert(@, page_id, r_target)]

\* FetchPageImpl lines 80-107: the replacer branch, for a call that found
\* page_id missing at line 50 and the free list empty at line 63.
FetchFromReplacer(s, page_id, ub) ==
  LET v == Victim(s.replacer)
      s1 == [s EXCEPT !.replacer = v.r]
  IN
  IF ~v.ret
    THEN [s |-> UninitRead(s1, ub), ret |-> nullptr]
    ELSE LET r_target == v.frame_id
             evict_page == s1.pages[r_target].page_id
             flu == IF s1.pages[r_target].is_dirty
                      THEN FlushPageImpl(s1, evict_page)
                      ELSE [s |-> s1, ret |-> TRUE]
             s2 == flu.s
         IN
         IF ~flu.ret
           THEN [s |-> s2, ret |-> nullptr]
           ELSE [s |-> [s2 EXCEPT
                          !.replacer = Pin(@, r_target),
                          !.pages[r_target] =
                             [page_id |-> page_id,
                              pin_count |-> @.pin_count + 1,
                              is_dirty |-> FALSE,
                              data |-> ReadPage(s2, page_id)],
                          !.page_table =
                             Insert(Erase(@, evict_page), page_id, r_target)],
                 ret |-> r_target]

\* Thread t enters FetchPage(page_id): lines 50-51.
ThreadFetchFind(t, page_id) ==
  /\ ~crashed
  /\ threads[t].pc = "idle"
  /\ threads[t].calls < MaxCalls
  /\ threads' = [threads EXCEPT ![t] =
       IF Find(page_table, page_id)
         THEN [pc |-> "hit", page_id |-> page_id,
               frame |-> page_table[page_id], pin |-> 0,
               calls |-> @.calls + 1]
         ELSE [pc |-> "miss", page_id |-> page_id, frame |-> nullptr,
               pin |-> 0, calls |-> @.calls + 1]]
  /\ UNCHANGED <<pages, page_table, free_list, replacer, disk, next_page_id,
                 op, crashed, evicted_bytes, waited>>

\* Lines 53-54, first half: Pin in the replacer, read pin_count_.
ThreadFetchHitRead(t) ==
  /\ ~crashed
  /\ threads[t].pc = "hit"
  /\ replacer' = Pin(replacer, threads[t].frame)
  /\ threads' = [threads EXCEPT ![t].pc = "hit_write",
                                ![t].pin = pages[threads[t].frame].pin_count]
  /\ UNCHANGED <<pages, page_table, free_list, disk, next_page_id,
                 op, crashed, evicted_bytes, waited>>

\* Line 54, second half: write pin_count_; lines 56-57: return the frame.
ThreadFetchHitWrite(t) ==
  /\ ~crashed
  /\ threads[t].pc = "hit_write"
  /\ pages' = [pages EXCEPT ![threads[t].frame].pin_count = threads[t].pin + 1]
  /\ threads' = [threads EXCEPT ![t] =
       Pinned(threads[t].page_id, threads[t].frame, threads[t].calls)]
  /\ UNCHANGED <<page_table, free_list, replacer, disk, next_page_id,
                 op, crashed, evicted_bytes, waited>>

\* Lines 63-64: test the free list and read its front.
ThreadFetchMiss(t) ==
  /\ ~crashed
  /\ threads[t].pc = "miss"
  /\ threads' = [threads EXCEPT ![t] =
       IF free_list # <<>>
         THEN [@ EXCEPT !.pc = "pop", !.frame = Head(free_list)]
         ELSE [@ EXCEPT !.pc = "evict"]]
  /\ UNCHANGED <<pages, page_table, free_list, replacer, disk, next_page_id,
                 op, crashed, evicted_bytes, waited>>

\* Lines 65-76.
ThreadFetchPop(t) ==
  /\ ~crashed
  /\ threads[t].pc = "pop"
  /\ \E ub \in UB :
       Becomes(FetchFromFreeList(St, threads[t].page_id, threads[t].frame, ub))
  /\ threads' = [threads EXCEPT ![t] =
       Pinned(threads[t].page_id, threads[t].frame, threads[t].calls)]

\* Lines 80-107.
ThreadFetchEvict(t) ==
  /\ ~crashed
  /\ threads[t].pc = "evict"
  /\ \E ub \in UB :
       LET r == FetchFromReplacer(St, threads[t].page_id, ub) IN
       /\ Becomes(r.s)
       /\ threads' = [threads EXCEPT ![t] =
            IF r.ret # nullptr
              THEN Pinned(threads[t].page_id, r.ret, threads[t].calls)
              ELSE AtRest(threads[t].calls)]

\* Thread t releases the page it holds: UnpinPage(page_id, is_dirty), run
\* without interference.
ThreadUnpinPage(t, is_dirty) ==
  /\ ~crashed
  /\ threads[t].pc = "pinned"
  /\ Becomes(UnpinPageImpl(St, threads[t].page_id, is_dirty).s)
  /\ threads' = [threads EXCEPT ![t] = AtRest(threads[t].calls)]

NextThreads ==
  \E t \in Threads :
    \/ \E page_id \in PageIds : ThreadFetchFind(t, page_id)
    \/ ThreadFetchHitRead(t)
    \/ ThreadFetchHitWrite(t)
    \/ ThreadFetchMiss(t)
    \/ ThreadFetchPop(t)
    \/ ThreadFetchEvict(t)
    \/ \E is_dirty \in BOOLEAN : ThreadUnpinPage(t, is_dirty)

SpecThreads == InitThreads /\ [][NextThreads]_vars

\* ---------------------------------------------------------------- claims
\* Frame f holds a page: its page_id is not the unbound sentinel.
Bound(f) == pages[f].page_id # INVALID_PAGE_ID

\* Frame f is the page table's frame for the page it holds.
Resident(f) ==
  /\ Bound(f)
  /\ Find(page_table, pages[f].page_id)
  /\ page_table[pages[f].page_id] = f

\* C1: pin protection. In every step, a frame whose pin_count is above 0
\* before the call is not the frame Victim hands out and keeps its page_id;
\* so only a frame with pin_count 0 (a free-list frame or an unpinned
\* resident one) is rebound.
C1_PinProtection ==
  [][\A f \in Frames :
       pages[f].pin_count > 0 =>
         /\ op'.victim # f
         /\ pages'[f].page_id = pages[f].page_id]_vars

\* C1 witness: a call evicted a frame while the other frame of the pool was
\* pinned.
C1_Witness ==
  /\ op.victim # nullptr
  /\ op.ok
  /\ \E f \in Frames : f # op.victim /\ pages[f].pin_count > 0 /\ Bound(f)

\* C2: page-table consistency. Every key of the page table maps to a frame
\* holding that page, every bound frame is the table's frame of its page
\* (so exactly one frame holds each resident page and none holds a page
\* that is not a key), and no frame is the value of two keys.
C2_PageTableConsistent ==
  /\ \A p \in DOMAIN page_table :
       /\ page_table[p] \in Frames
       /\ pages[page_table[p]].page_id = p
  /\ \A f \in Frames : Bound(f) => Resident(f)
  /\ \A p, q \in DOMAIN page_table : page_table[p] = page_table[q] => p = q

\* C2 witness: a FetchPage evicted a page to bring another one back in.
C2_Witness ==
  /\ op.name = "FetchPage"
  /\ op.ok
  /\ op.victim # nullptr
  /\ Cardinality(DOMAIN page_table) = PoolSize

\* C3: replacer/manager agreement. A frame is trackable in the replacer iff
\* it is resident with pin_count 0, and Size() counts exactly those frames.
C3_ReplacerAgrees ==
  /\ \A f \in Frames :
       replacer.inflag[f] <=> (Resident(f) /\ pages[f].pin_count = 0)
  /\ Size(replacer) =
       Cardinality({f \in Frames : Resident(f) /\ pages[f].pin_count = 0})

\* C3 witness: one frame is trackable while another resident frame, unpinned
\* once from two pins, is still pinned and not trackable.
C3_Witness ==
  /\ op.name = "UnpinPage"
  /\ op.ok
  /\ \E f, g \in Frames :
       /\ replacer.inflag[f]
       /\ Resident(g) /\ pages[g].pin_count = 1 /\ ~replacer.inflag[g]
       /\ pages[g].page_id = op.page_id

\* C4: pin_count is never negative, and UnpinPage on a resident page whose
\* pin_count is 0 returns false and changes neither the frames (pin count,
\* dirty flag), the page table, the free list nor the replacer.
C4_UnpinAtZero ==
  /\ [](\A f \in Frames : pages[f].pin_count >= 0)
  /\ [][(/\ op'.name = "UnpinPage"
         /\ Find(page_table, op'.page_id)
         /\ pages[page_table[op'.page_id]].pin_count = 0)
        => (/\ ~op'.ok
            /\ UNCHANGED <<pages, page_table, free_list, replacer>>)]_vars

\* C4 witness: UnpinPage(id, true) was refused on a resident page that has
\* pin_count 0 and is not dirty.
C4_Witness ==
  /\ op.name = "UnpinPage"
  /\ op.is_dirty
  /\ ~op.ok
  /\ Find(page_table, op.page_id)
  /\ pages[page_table[op.page_id]].pin_count = 0
  /\ ~pages[page_table[op.page_id]].is_dirty

\* Every frame is pinned and the free list is empty: the pool holds
\* PoolSize pages that were fetched or created and not unpinned since.
AllPinned ==
  /\ free_list = <<>>
  /\ \A f \in Frames : pages[f].pin_count > 0

\* The call of this step is a NewPage, or a FetchPage of a page that is not
\* in the page table.
NeedsFrame ==
  \/ op'.name = "NewPage"
  \/ op'.name = "FetchPage" /\ ~Find(page_table, op'.page_id)

\* C5: capacity law. With every frame pinned, a NewPage call and a FetchPage
\* call for a non-resident page return failure, and a FetchPage call for a
\* resident page returns its frame.
C5_CapacityLaw ==
  [][AllPinned =>
       /\ NeedsFrame => (~op'.ok /\ ~crashed')
       /\ (op'.name = "FetchPage" /\ Find(page_table, op'.page_id)) =>
            (op'.ok /\ op'.frame = page_table[op'.page_id])]_vars

\* C6: exhaustion is a clean failure. A NewPage or FetchPage-miss call made
\* with the free list empty and no trackable frame returns failure, does not
\* end the process, indexes pages_ only with a frame it obtained, and leaves
\* frames, page table, free list and replacer (clock hand included) as they
\* were.
C6_CleanExhaustion ==
  [][(free_list = <<>> /\ Size(replacer) = 0 /\ NeedsFrame) =>
       /\ ~op'.ok
       /\ ~crashed'
       /\ ~op'.uninit_read
       /\ UNCHANGED <<pages, page_table, free_list, replacer>>]_vars

\* The frame a step evicts: the frame Victim handed to a call that then
\* returned it bound to another page.
Evicts(f) == op'.victim = f /\ op'.ok

\* C7: sticky dirty. A successful UnpinPage(id, true) leaves the page dirty,
\* and a dirty frame stays dirty through every step except a FlushPage of
\* its page, a FlushAllPages, or its eviction, which first writes its bytes
\* under its page id.
C7_StickyDirty ==
  [][/\ (/\ op'.name = "UnpinPage" /\ op'.is_dirty /\ op'.ok
         /\ Find(page_table, op'.page_id))
        => pages'[page_table[op'.page_id]].is_dirty
     /\ \A f \in Frames :
          (pages[f].is_dirty /\ ~pages'[f].is_dirty) =>
            \/ op'.name = "FlushPage" /\ op'.page_id = pages[f].page_id
            \/ op'.name = "FlushAllPages"
            \/ /\ Evicts(f)
               /\ Len(op'.io) > 0
               /\ Head(op'.io) = <<"WritePage", pages[f].page_id, pages[f].data>>]_vars

\* C7 witness: a page made dirty by UnpinPage(id, true) was fetched again
\* and unpinned with is_dirty false, and is still dirty.
C7_Witness ==
  /\ op.name = "UnpinPage"
  /\ ~op.is_dirty
  /\ op.ok
  /\ Find(page_table, op.page_id)
  /\ pages[page_table[op.page_id]].is_dirty
  /\ pages[page_table[op.page_id]].pin_count = 0

\* C8: FlushPage(id) fails exactly when id is not resident; it calls
\* WritePage, once, with the frame's bytes under id, exactly when id is
\* resident and dirty; after a successful call the page is not dirty (so the
\* next FlushPage writes nothing); no pin count, page-table entry, free-list
\* entry or replacer flag changes.
C8_FlushPage ==
  [][op'.name = "FlushPage" =>
       LET id == op'.page_id
           res == Find(page_table, id)
       IN
       /\ op'.ok <=> res
       /\ ~res => (op'.io = <<>> /\ pages' = pages /\ disk' = disk)
       /\ res =>
            LET f == page_table[id] IN
            /\ op'.io = IF pages[f].is_dirty
                          THEN << <<"WritePage", id, pages[f].data>> >>
                          ELSE <<>>
            /\ pages[f].is_dirty => disk' = [disk EXCEPT ![id] = pages[f].data]
            /\ ~pages[f].is_dirty => disk' = disk
            /\ pages' = [pages EXCEPT ![f].is_dirty = FALSE]
       /\ UNCHANGED <<page_table, free_list, replacer>>]_vars

\* C8 witness: a FlushPage wrote bytes other than the initial ones for a
\* page that is still pinned.
C8_Witness ==
  /\ op.name = "FlushPage"
  /\ op.ok
  /\ Len(op.io) = 1
  /\ op.io[1][3] # 0
  /\ pages[page_table[op.page_id]].pin_count > 0
  /\ ~pages[page_table[op.page_id]].is_dirty

\* C9: dirty write-back and round trip. A call that evicts a frame holding
\* a dirty page first calls WritePage with that page's id and the frame's
\* bytes, before any ReadPage or AllocatePage of the call; and a FetchPage
\* that brings an evicted page back returns the bytes the page had when it
\* was evicted (callers report every change with UnpinPage(id, true)).
C9_WriteBackRoundTrip ==
  [][/\ \A f \in Frames :
          (Evicts(f) /\ pages[f].is_dirty) =>
            /\ Len(op'.io) = 2
            /\ op'.io[1] = <<"WritePage", pages[f].page_id, pages[f].data>>
            /\ op'.io[2][1] \in {"ReadPage", "AllocatePage"}
            /\ disk'[pages[f].page_id] = pages[f].data
     /\ (/\ op'.name = "FetchPage" /\ op'.ok
         /\ ~Find(page_table, op'.page_id)
         /\ evicted_bytes[op'.page_id] # -1)
        => pages'[op'.frame].data = evicted_bytes[op'.page_id]]_vars

\* C9 witness: a FetchPage evicted a dirty page, writing back bytes other
\* than the initial ones, and brought back a page that had such bytes when
\* it was evicted.
C9_Witness ==
  /\ op.name = "FetchPage"
  /\ op.ok
  /\ op.victim # nullptr
  /\ Len(op.io) = 2
  /\ op.io[1][1] = "WritePage"
  /\ op.io[1][3] # 0
  /\ pages[op.frame].data # 0
  /\ evicted_bytes[op.io[1][2]] = op.io[1][3]

\* C10: DeletePage(id) succeeds, changing nothing, when id is not resident;
\* when id is resident with pin_count 0 it succeeds, calls DeallocatePage(id),
\* removes id from the page table, resets the frame to unbound, makes it not
\* trackable and appends it to the free list; when id is resident with
\* pin_count > 0 it fails, changing nothing.
C10_DeletePage ==
  [][op'.name = "DeletePage" =>
       LET id == op'.page_id
           res == Find(page_table, id)
       IN
       /\ ~res => (op'.ok /\ UNCHANGED <<pages, page_table, free_list, replacer>>)
       /\ res =>
            LET f == page_table[id] IN
            /\ pages[f].pin_count > 0 =>
                 (~op'.ok /\ UNCHANGED <<pages, page_table, free_list, replacer>>)
            /\ pages[f].pin_count = 0 =>
                 /\ op'.ok
                 /\ op'.io = << <<"DeallocatePage", id>> >>
                 /\ ~Find(page_table', id)
                 /\ pages'[f].page_id = INVALID_PAGE_ID
                 /\ pages'[f].pin_count = 0
                 /\ ~pages'[f].is_dirty
                 /\ ~replacer'.inflag[f]
                 /\ free_list' = Append(free_list, f)]_vars

\* The storage calls of the step's call that are AllocatePage calls.
AllocateCalls == {i \in 1 .. Len(op'.io) : op'.io[i][1] = "AllocatePage"}

\* C11 as stated: NewPage calls AllocatePage before it tries to acquire a
\* frame, so every NewPage call starts its storage calls with AllocatePage,
\* and a NewPage call that fails has called AllocatePage once (the
\* identifier is consumed) and has not called DeallocatePage.
C11_AllocateBeforeFrame ==
  [][op'.name = "NewPage" =>
       /\ Len(op'.io) > 0
       /\ Head(op'.io) = <<"AllocatePage", next_page_id>>
       /\ Cardinality(AllocateCalls) = 1
       /\ next_page_id' = next_page_id + 1
       /\ \A i \in 1 .. Len(op'.io) : op'.io[i][1] # "DeallocatePage"]_vars

\* C11 amended: NewPage calls AllocatePage only once it holds a frame. A
\* NewPage call that fails has made no AllocatePage call and leaves the next
\* identifier as it was; a call that succeeds makes exactly one, as its last
\* storage call (after the write-back of a dirty victim), and returns the
\* identifier it got. No call makes a DeallocatePage call.
C11_AllocateAfterFrame ==
  [][op'.name = "NewPage" =>
       /\ ~op'.ok =>
            /\ AllocateCalls = {}
            /\ next_page_id' = next_page_id
       /\ op'.ok =>
            /\ AllocateCalls = {Len(op'.io)}
            /\ op'.io[Len(op'.io)] = <<"AllocatePage", next_page_id>>
            /\ op'.page_id = next_page_id
            /\ next_page_id' = next_page_id + 1
       /\ \A i \in 1 .. Len(op'.io) : op'.io[i][1] # "DeallocatePage"]_vars

\* C11 witness: a NewPage call failed and returned with every frame pinned,
\* after NewPage calls that minted identifiers.
C11_Witness ==
  /\ op.name = "NewPage"
  /\ ~op.ok
  /\ ~crashed
  /\ op.io = <<>>
  /\ next_page_id = PoolSize
  /\ AllPinned

\* The frames in the replacer (trackable), and those of them whose ref flag
\* is clear.
Trackable(r) == {f \in DOMAIN r.inflag : r.inflag[f]}
Unreferenced(r) == {f \in Trackable(r) : ~r.reflag[f]}

\* C12: Victim returns false iff no frame is trackable when it is called,
\* and then leaves the clock hand and every flag as they were; otherwise it
\* returns true with a frame of 0..N-1 that was trackable before the call
\* and is not after it, Size() is one less, and no other frame's trackable
\* flag changes.
C12_VictimResult ==
  [][op'.name = "Victim" =>
       /\ ~op'.ok <=> Trackable(replacer) = {}
       /\ ~op'.ok => replacer' = replacer
       /\ op'.ok =>
            /\ op'.frame \in 0 .. (replacer.buffer_size - 1)
            /\ replacer.inflag[op'.frame]
            /\ ~replacer'.inflag[op'.frame]
            /\ Size(replacer') = Size(replacer) - 1
            /\ \A g \in DOMAIN replacer.inflag :
                 g # op'.frame => replacer'.inflag[g] = replacer.inflag[g]]_vars

\* C12 witness: Victim returned a frame and left two others trackable, one
\* of them still referenced.
C12_Witness ==
  /\ op.name = "Victim"
  /\ op.ok
  /\ ~replacer.inflag[op.frame]
  /\ Cardinality(Trackable(replacer)) = 2
  /\ Cardinality(Unreferenced(replacer)) = 1

\* Steps from the clock hand h forward to frame f, around the ring of n.
Ahead(h, f, n) == (f - h + n) % n

\* The frame of S met first when sweeping from the hand of r.
FirstFromHand(r, S) ==
  CHOOSE f \in S :
    \A g \in S : Ahead(r.clk_ptr, f, r.buffer_size) <= Ahead(r.clk_ptr, g, r.buffer_size)

\* C13: second chance. If some trackable frame is not referenced, Victim
\* returns the first such frame from the hand, and clears the ref flag of
\* exactly the trackable frames before it in the sweep. If every trackable
\* frame is referenced, it returns the first trackable frame from the hand
\* and leaves every other trackable frame trackable and not referenced.
\* Either way the hand ends one past the returned frame (mod N).
C13_SecondChance ==
  [][(op'.name = "Victim" /\ Trackable(replacer) # {}) =>
       LET r == replacer
           n == r.buffer_size
       IN
       /\ op'.ok
       /\ replacer'.clk_ptr = (op'.frame + 1) % n
       /\ Unreferenced(r) # {} =>
            /\ op'.frame = FirstFromHand(r, Unreferenced(r))
            /\ \A g \in DOMAIN r.reflag :
                 replacer'.reflag[g] =
                   IF g \in Trackable(r)
                      /\ Ahead(r.clk_ptr, g, n) < Ahead(r.clk_ptr, op'.frame, n)
                     THEN FALSE
                     ELSE r.reflag[g]
       /\ Unreferenced(r) = {} =>
            /\ op'.frame = FirstFromHand(r, Trackable(r))
            /\ \A g \in Trackable(r) \ {op'.frame} :
                 replacer'.inflag[g] /\ ~replacer'.reflag[g]]_vars

\* C13 witness: Victim returned frame 0 and left the hand at 1; frames 1 and
\* 2, referenced when it was called (no other Victim call succeeded since
\* their Unpin), are still trackable and it cleared their ref flags.
C13_Witness ==
  /\ op.name = "Victim"
  /\ op.ok
  /\ op.frame = 0
  /\ replacer.clk_ptr = 1
  /\ waited[1] = 1 /\ waited[2] = 1
  /\ \A g \in {1, 2} : replacer.inflag[g] /\ ~replacer.reflag[g]

\* C14: UnpinPage(id, is_dirty) on an id that is not in the page table
\* (never fetched, or evicted) returns true and changes nothing: pin counts,
\* dirty flags, page table, free list and replacer stay as they were, for
\* either value of is_dirty; it makes no storage call.
C14_UnpinNotResident ==
  [][(op'.name = "UnpinPage" /\ ~Find(page_table, op'.page_id)) =>
       /\ op'.ok
       /\ op'.io = <<>>
       /\ UNCHANGED <<pages, page_table, free_list, replacer, disk>>]_vars

\* C14 witness: UnpinPage(id, true) returned true for a page that was
\* evicted and is not resident, while the pool holds other pages.
C14_Witness ==
  /\ op.name = "UnpinPage"
  /\ op.is_dirty
  /\ op.ok
  /\ ~Find(page_table, op.page_id)
  /\ evicted_bytes[op.page_id] # -1
  /\ \A f \in Frames : Bound(f) /\ ~pages[f].is_dirty

\* The frames that hold a resident page that is dirty.
DirtyResident == {f \in Frames : Resident(f) /\ pages[f].is_dirty}

\* C15: FlushAllPages. After the call no resident frame is dirty; each frame
\* that was resident and dirty had its bytes written by exactly one
\* WritePage under its own page id, and there is no other WritePage (none
\* for a clean or unbound frame); page table, pin counts, free list and
\* replacer are unchanged.
C15_FlushAllPages ==
  [][op'.name = "FlushAllPages" =>
       /\ \A f \in Frames : ~pages'[f].is_dirty
       /\ \A f \in DirtyResident :
            /\ Cardinality({i \in 1 .. Len(op'.io) :
                 op'.io[i] = <<"WritePage", pages[f].page_id, pages[f].data>>}) = 1
            /\ disk'[pages[f].page_id] = pages[f].data
       /\ Len(op'.io) = Cardinality(DirtyResident)
       /\ \A p \in PageIds :
            (\A f \in DirtyResident : pages[f].page_id # p) => disk'[p] = disk[p]
       /\ \A f \in Frames :
            /\ pages'[f].pin_count = pages[f].pin_count
            /\ pages'[f].page_id = pages[f].page_id
            /\ pages'[f].data = pages[f].data
       /\ UNCHANGED <<page_table, free_list, replacer>>]_vars

\* C15 witness: a FlushAllPages wrote two dirty pages with different bytes,
\* one of them pinned and the other in the replacer.
C15_Witness ==
  /\ op.name = "FlushAllPages"
  /\ Len(op.io) = 2
  /\ op.io[1][3] # op.io[2][3]
  /\ \E f, g \in Frames :
       /\ pages[f].pin_count > 0
       /\ replacer.inflag[g]
       /\ ~pages[f].is_dirty /\ ~pages[g].is_dirty

\* Thread t has returned from FetchPage with a frame and not unpinned yet.
Holds(t) == threads[t].pc = "pinned"

\* No thread is inside a call.
Quiescent == \A t \in Threads : threads[t].pc \in {"idle", "pinned"}

\* C16: serialization under concurrent callers. The calls of different
\* threads act as if each ran alone in one critical section: no two threads
\* are handed the same frame for two different pages, a frame a thread
\* holds pinned still holds that thread's page (it was not rebound), and no
\* pin-count update is lost: between calls each frame's pin_count is the
\* number of threads holding it.
C16_Serialized ==
  /\ \A t, u \in Threads :
       (Holds(t) /\ Holds(u) /\ threads[t].page_id # threads[u].page_id)
         => threads[t].frame # threads[u].frame
  /\ \A t \in Threads :
       Holds(t) => pages[threads[t].frame].page_id = threads[t].page_id
  /\ Quiescent =>
       \A f \in Frames :
         pages[f].pin_count = Cardinality({t \in Threads : Holds(t) /\ threads[t].frame = f})

\* The frame f is an element of the free list fl.
InFreeList(fl, f) == \E i \in 1 .. Len(fl) : fl[i] = f

\* C17: fresh binding. Right after a successful FetchPage that missed the
\* page table, and after a successful NewPage, the returned frame has the
\* requested (or new) page id, pin_count exactly 1 and dirty false, is not
\* trackable in the replacer and is not in the free list.
C17_FreshBinding ==
  [][(op'.ok /\ NeedsFrame) =>
       /\ op'.frame \in Frames
       /\ pages'[op'.frame].page_id = op'.page_id
       /\ pages'[op'.frame].pin_count = 1
       /\ ~pages'[op'.frame].is_dirty
       /\ ~replacer'.inflag[op'.frame]
       /\ ~InFreeList(free_list', op'.frame)]_vars

\* C17 witness: a FetchPage that missed took a dirty, referenced frame from
\* the replacer and returned it freshly bound, the free list being empty.
C17_Witness ==
  /\ op.name = "FetchPage"
  /\ op.ok
  /\ op.victim = op.frame
  /\ Len(op.io) = 2
  /\ pages[op.frame].pin_count = 1
  /\ ~pages[op.frame].is_dirty
  /\ replacer.clk_ptr = (op.frame + 1) % PoolSize

\* The textbook clock: sweep from the hand for up to two laps (steps
\* 0 .. 2N-1); a trackable frame with its ref flag set has the flag cleared
\* and is passed; the first trackable frame met with the flag clear is
\* taken: it leaves the replacer and the hand moves one past it. After two
\* laps without one, nothing is returned and the hand is where it started.
RECURSIVE TwoLapSweep(_, _, _)
TwoLapSweep(r, hand, step) ==
  IF step >= 2 * r.buffer_size
    THEN [ret |-> FALSE, frame_id |-> nullptr, r |-> r]
    ELSE LET idx == (hand + step) % r.buffer_size IN
         IF r.inflag[idx] /\ ~r.reflag[idx]
           THEN [ret |-> TRUE, frame_id |-> idx,
                 r |-> [r EXCEPT !.inflag[idx] = FALSE,
                                 !.clk_ptr = (idx + 1) % r.buffer_size]]
           ELSE TwoLapSweep(IF r.inflag[idx]
                              THEN [r EXCEPT !.reflag[idx] = FALSE]
                              ELSE r,
                            hand, step + 1)

TwoLapClock(r) == TwoLapSweep(r, r.clk_ptr, 0)

\* C18: the one-lap Victim with its fallback is the two-lap clock. On every
\* replacer state, a Victim call returns what the two-lap clock returns
\* (the same frame, or nothing) and leaves the same hand, trackable flags
\* and ref flags.
C18_OnePassIsTwoPass ==
  [][op'.name = "Victim" =>
       LET ref == TwoLapClock(replacer) IN
       /\ op'.ok = ref.ret
       /\ op'.frame = ref.frame_id
       /\ replacer' = ref.r]_vars

\* C18 witness: a Victim call returned frame 2 and left the hand at 0,
\* having swept frames 0 and 1 as well: they were referenced when it was
\* called (no other Victim call succeeded since their Unpin), are still
\* trackable, and it cleared their ref flags.
C18_Witness ==
  /\ op.name = "Victim"
  /\ op.ok
  /\ op.frame = 2
  /\ replacer.clk_ptr = 0
  /\ \A g \in {0, 1} :
       replacer.inflag[g] /\ ~replacer.reflag[g] /\ waited[g] = 1

\* C19: no starvation in the replacer. A frame that became trackable and
\* was not passed to Pin or Unpin since is returned by one of the next 2N
\* successful Victim calls, whatever Pin and Unpin calls are made on other
\* frames in between: a frame still trackable has waited through fewer than
\* 2N of them. Pin and Unpin never move the clock hand.
C19_NoStarvation ==
  /\ [](\A f \in DOMAIN replacer.inflag :
          replacer.inflag[f] => waited[f] < 2 * replacer.buffer_size)
  /\ [][op'.name \in {"Pin", "Unpin"} =>
          replacer'.clk_ptr = replacer.clk_ptr]_vars

\* C19 witness: a frame is still trackable after N-1 successful Victim
\* calls returned other frames (which were unpinned again in between), and
\* the hand has moved off frame 0.
C19_Witness ==
  /\ op.name = "Victim"
  /\ op.ok
  /\ replacer.clk_ptr # 0
  /\ \E f \in ReplacerFrames :
       replacer.inflag[f] /\ waited[f] = NumPages - 1

\* C20: unique binding under arbitrary identifiers. Whatever identifiers
\* FetchPage is called with, minted by AllocatePage or not yet, no two
\* frames carry the same page id and every bound frame is the page table's
\* frame of its page (no orphaned bound frame).
C20_UniqueBinding ==
  /\ \A f, g \in Frames :
       (Bound(f) /\ Bound(g) /\ pages[f].page_id = pages[g].page_id) => f = g
  /\ \A f \in Frames : Bound(f) => Resident(f)

====
